---- MODULE Spec2Model ----
(***************************************************************************)
(* Model of the elegoo-smart-car-rudn firmware (ATmega328P, 16 MHz).       *)
(*                                                                         *)
(*   clock.rs                   the millisecond counter MILLIS_COUNTER,    *)
(*                              its TIMER0_COMPA handler, millis() and     *)
(*                              reset_millis()                             *)
(*   hc_sr04_distance_sensor.rs HC_SR04::get_distance and the Distance     *)
(*                              conversions                                *)
(*   main.rs                    the start-up sequence                      *)
(*                                                                         *)
(* A u64 is kept as its 8 bytes, least significant first, because the      *)
(* 8-bit CPU loads and stores it one byte at a time and because the        *)
(* arithmetic wraps at 2^64.                                               *)
(***************************************************************************)
EXTENDS Integers, Sequences, FiniteSets, TLC

(***************************************************************************)
(* Bounds of the model                                                     *)
(***************************************************************************)
\* the handler stops firing once the counter has reached this value
MaxMillis == 257
\* ticks of TC1 that can elapse between two consecutive instructions of a
\* measurement (one tick is 64 CPU cycles)
MaxStepTicks == 1
\* where the clock and the ranger run together, the handler stops firing once
\* the counter has reached this value
MaxJointMillis == 2
\* and the counter of TC1 is followed up to this value in each wait: past the
\* rising-edge timeout, short of the falling-edge timeout
MaxJointTicks == 190

(***************************************************************************)
(* Program constants                                                       *)
(***************************************************************************)
PRESCALER == 64
TIMER_COUNTS == 250
F_CPU_KHZ == 16000
MILLIS_INCREMENT == (PRESCALER * TIMER_COUNTS) \div F_CPU_KHZ
\* bytes of a u64
U64Bytes == 8
\* TCNT1 is a 16-bit register
TCNT1_MODULUS == 65536
\* get_distance: ticks to wait for the rising edge, and for the falling edge
RISE_TIMEOUT == 188
FALL_TIMEOUT == 25000
\* Distance: largest u16 tick count, micrometres per tick, micrometres per mm
U16_MAX == 65535
UM_PER_TICK == 6805
UM_PER_MM == 1000

(***************************************************************************)
(* u64 arithmetic on bytes                                                 *)
(***************************************************************************)
ByteIdx == 1..U64Bytes

U64Zero == <<0, 0, 0, 0, 0, 0, 0, 0>>

\* U64Of if a 16-bit n were widened as a signed value
U64Of_signed(n) ==
    IF n >= 32768 /\ n < 65536
    THEN <<n % 256, n \div 256, 255, 255, 255, 255, 255, 255>>
    ELSE <<n % 256, (n \div 256) % 256, (n \div 65536) % 256,
           (n \div 16777216) % 256, 0, 0, 0, 0>>

\* the u64 whose value is n, for 0 <= n < 2^31
U64Of(n) == <<n % 256, (n \div 256) % 256, (n \div 65536) % 256,
              (n \div 16777216) % 256, 0, 0, 0, 0>>

\* the upper bytes of x are zero, so that its value fits the checker's integers
U64Small(x) == x[4] < 128 /\ \A i \in 5..U64Bytes : x[i] = 0

\* the value of x when U64Small(x)
U64Val(x) == x[1] + 256 * x[2] + 65536 * x[3] + 16777216 * x[4]

RECURSIVE AddFrom(_, _, _)
\* bytes i.. of x + c, where c is the carry into byte i; the carry out of the
\* last byte is dropped
AddFrom(x, i, c) ==
    IF i > U64Bytes THEN <<>>
    ELSE LET t == x[i] + c
         IN  <<t % 256>> \o AddFrom(x, i + 1, t \div 256)

\* x + k, wrapping at 2^64
U64Add(x, k) == AddFrom(x, 1, k)

RECURSIVE MulFrom(_, _, _, _)
\* bytes i.. of x * k, where c is the carry into byte i
MulFrom(x, k, i, c) ==
    IF i > U64Bytes THEN <<>>
    ELSE LET t == x[i] * k + c
         IN  <<t % 256>> \o MulFrom(x, k, i + 1, t \div 256)

\* x * k, wrapping at 2^64
U64Mul(x, k) == MulFrom(x, k, 1, 0)

RECURSIVE MulCarryFrom(_, _, _, _)
\* what x * k carries out of its last byte, where c is the carry into byte i
MulCarryFrom(x, k, i, c) ==
    IF i > U64Bytes THEN c
    ELSE MulCarryFrom(x, k, i + 1, (x[i] * k + c) \div 256)

\* the part of x * k that U64Mul drops: 0 when the product fits the u64
U64MulCarry(x, k) == MulCarryFrom(x, k, 1, 0)

RECURSIVE DivFrom(_, _, _, _)
\* bytes 1..i of x / d by long division, where r is the remainder that the
\* bytes above i left
DivFrom(x, d, i, r) ==
    IF i = 0 THEN <<>>
    ELSE LET t == r * 256 + x[i]
         IN  DivFrom(x, d, i - 1, t % d) \o <<t \div d>>

\* x / d, truncating
U64Div(x, d) == DivFrom(x, d, U64Bytes, 0)

(***************************************************************************)
(* State                                                                   *)
(***************************************************************************)
VARIABLES
    MILLIS_COUNTER, \* clock.rs: the Cell<u64>, as 8 bytes
    sreg_i,         \* the CPU's global interrupt enable bit
    ocie0a,         \* TIMSK0.OCIE0A: the compare-match interrupt of TC0 is armed
    pc,             \* position of the main context
    idx,            \* byte that the main context's u64 access is at (0: none)
    acc,            \* bytes that millis() has loaded so far
    saved_i,        \* the interrupt bit that interrupt::free saved (main context)
    ipc,            \* position of the TIMER0_COMPA handler ("idle": not running)
    itmp,           \* the handler's local `counter`
    runs,           \* history: handler runs since the counter was last zeroed
    lastRead,       \* history: value the latest millis() returned since the
                    \* last reset (-1: none)
    tc1_running,    \* HC_SR04::new has started TC1 with prescaler 64
    tcnt1,          \* the TC1 counter register (16 bits)
    trigger_pin,    \* level of the Trig output
    echo,           \* level of the Echo input (TRUE: high)
    slack,          \* ticks elapsed since the last instruction of the measurement
    result,         \* what the latest get_distance() returned
    pulse,          \* history: the echo pulse of this call, see echo_rise
    pulseTicks,     \* history: ticks for which that pulse has been (was) high
    everHigh,       \* history: the echo was high at some instant of the
                    \* rising-edge wait of this call
    enteredFall,    \* history: this call has seen the echo high
    fellInWindow,     \* history: the echo fell in the falling-edge wait, counter <= 25000
    d1, d2,         \* two Distance values
    um1, um2,       \* their to_um()
    mm1, mm2,       \* their to_mm()
    cstep,          \* conversions applied so far: 0 none, 1 to_um, 2 to_mm
    servo_pin,      \* servo.rs: level of the servo's signal pin
    current_phase,  \* servo.rs: Servo.current_phase.value
    sv_pc,          \* position inside set_angle/set_phase/write_phase
    sv_angle,       \* the angle that the running set_angle was called with
    sv_i,           \* pulses that the loop of set_phase has completed
    high_us,        \* microseconds for which the current pulse has been high
    low_ms,         \* milliseconds of the current pulse's low time (delay_ms)
    low_us,         \* the u32 argument of the final delay_us, as 16-bit limbs
    pin_enable_a, pin_enable_b,     \* l287n_motor_driver.rs: the enable pins
    pin_a1, pin_a2, pin_b1, pin_b2, \* the direction pins
    m_pc,           \* position inside set_direction/set_enabled
    m_direction,    \* argument of the running set_direction
    m_en,           \* arguments of the running set_enabled
    last_direction, \* history: argument of the latest completed set_direction
    pin_left, pin_center, pin_right, \* line_tracker.rs: levels of the inputs
    position,       \* the LinePosition that measure_full returned
    bias_dark,      \* its get_bias_direction_dark()
    bias_light,     \* its get_bias_direction_light()
    tracker_dark,   \* to_line_tracker_direction() of bias_dark
    tracker_light,  \* to_line_tracker_direction() of bias_light
    lstep           \* 0 nothing measured, 1 measured, 2 classified, 3 converted

clockVars == <<MILLIS_COUNTER, sreg_i, ocie0a, idx, acc, saved_i, ipc, itmp,
               runs, lastRead>>

rangerVars == <<tc1_running, tcnt1, trigger_pin, echo, slack, result, pulse,
                pulseTicks, everHigh, enteredFall, fellInWindow>>

historyVars == <<pulse, pulseTicks, everHigh, enteredFall, fellInWindow>>

convVars == <<d1, d2, um1, um2, mm1, mm2, cstep>>

servoVars == <<servo_pin, current_phase, sv_pc, sv_angle, sv_i, high_us,
               low_ms, low_us>>

motorVars == <<pin_enable_a, pin_enable_b, pin_a1, pin_a2, pin_b1, pin_b2,
               m_pc, m_direction, m_en, last_direction>>

lineVars == <<pin_left, pin_center, pin_right, position, bias_dark, bias_light,
              tracker_dark, tracker_light, lstep>>

\* the servo, the motor driver and the line tracker
driverVars == <<servoVars, motorVars, lineVars>>

\* the state that neither the clock nor the ranger touches
pureVars == <<convVars, driverVars>>

vars == <<MILLIS_COUNTER, sreg_i, ocie0a, pc, idx, acc, saved_i, ipc, itmp,
          runs, lastRead, tc1_running, tcnt1, trigger_pin, echo, slack, result,
          pulse, pulseTicks, everHigh, enteredFall, fellInWindow,
          d1, d2, um1, um2, mm1, mm2, cstep, driverVars>>

NoRead == 0 - 1

\* DistanceMeasurement
NoResult == [tag |-> "None", ticks |-> 0]
Unknown == [tag |-> "Unknown", ticks |-> 0]
Infinity == [tag |-> "Infinity", ticks |-> 0]
\* Measured(Distance::new(t))
Measured(t) == [tag |-> "Measured", ticks |-> t]

\* Distance::new
Distance_new(t) == [ticks |-> t]

\* the machine after reset, before main runs
InitMachine ==
    /\ MILLIS_COUNTER = U64Zero
    /\ sreg_i = FALSE
    /\ ocie0a = FALSE
    /\ pc = "boot"
    /\ idx = 0
    /\ acc = U64Zero
    /\ saved_i = FALSE
    /\ ipc = "idle"
    /\ itmp = U64Zero
    /\ runs = 0
    /\ lastRead = NoRead
    /\ tc1_running = FALSE
    /\ tcnt1 = 0
    /\ trigger_pin = FALSE
    /\ echo = FALSE
    /\ slack = 0
    /\ result = NoResult
    /\ pulse = "none"
    /\ pulseTicks = 0
    /\ everHigh = FALSE
    /\ enteredFall = FALSE
    /\ fellInWindow = FALSE

InitConv ==
    /\ um1 = U64Zero
    /\ um2 = U64Zero
    /\ mm1 = U64Zero
    /\ mm2 = U64Zero
    /\ cstep = 0

\* the largest u8: the type of set_angle's and from_angle's argument
U8_MAX == 255
\* for _ in 0..5
SERVO_PULSES == 5

\* a u32 as two 16-bit limbs
U32(n) == [hi |-> (n \div 65536) % 65536, lo |-> n % 65536]

\* ServoPhase::from_angle: ((angle as u32) * 1000) / 180
ServoPhase_from_angle(angle) == (angle * 1000) \div 180

\* Servo::new has returned: the phase of 90 degrees, the pin low again
InitServo ==
    /\ servo_pin = FALSE
    /\ current_phase = ServoPhase_from_angle(90)
    /\ sv_pc = "idle"
    /\ sv_angle = 90
    /\ sv_i = 0
    /\ high_us = 0
    /\ low_ms = 0
    /\ low_us = U32(0)

\* MotorChassis::new has returned: six outputs that nothing has driven yet
InitMotor ==
    /\ pin_enable_a = FALSE
    /\ pin_enable_b = FALSE
    /\ pin_a1 = FALSE
    /\ pin_a2 = FALSE
    /\ pin_b1 = FALSE
    /\ pin_b2 = FALSE
    /\ m_pc = "idle"
    /\ m_direction = "None"
    /\ m_en = <<FALSE, FALSE>>
    /\ last_direction = "None"

\* LineTracker::new has returned: the pins are tied high off the line
InitLine ==
    /\ pin_left = TRUE
    /\ pin_center = TRUE
    /\ pin_right = TRUE
    /\ position = [left |-> "Light", mid |-> "Light", right |-> "Light"]
    /\ bias_dark = "None"
    /\ bias_light = "None"
    /\ tracker_dark = "None"
    /\ tracker_light = "None"
    /\ lstep = 0

InitDrivers == InitServo /\ InitMotor /\ InitLine

Init ==
    /\ InitMachine
    /\ InitConv
    /\ InitDrivers
    /\ d1 = Distance_new(0)
    /\ d2 = Distance_new(0)

\* the main context executes an instruction only while no handler is running
MainRuns == ipc = "idle"

(***************************************************************************)
(* avr_device::interrupt::free as the three functions of clock.rs use it:  *)
(* save SREG and disable interrupts, run the closure, restore SREG.        *)
(***************************************************************************)
\* free_enter if the closure ran with interrupts left as they were
free_enter_enabled(from, to) ==
    /\ MainRuns
    /\ pc = from
    /\ pc' = to
    /\ saved_i' = sreg_i
    /\ sreg_i' = sreg_i
    /\ idx' = 1

free_enter(from, to) ==
    /\ MainRuns
    /\ pc = from
    /\ pc' = to
    /\ saved_i' = sreg_i
    /\ sreg_i' = FALSE
    /\ idx' = 1

\* free_exit if it enabled interrupts instead of restoring the saved bit
free_exit_sei(from, to) ==
    /\ MainRuns
    /\ pc = from
    /\ pc' = to
    /\ sreg_i' = TRUE
    /\ idx' = 0

free_exit(from, to) ==
    /\ MainRuns
    /\ pc = from
    /\ pc' = to
    /\ sreg_i' = saved_i
    /\ idx' = 0

\* Cell::set(0) on the u64: one byte store per step
store_zero(at, next) ==
    /\ MainRuns
    /\ pc = at
    /\ MILLIS_COUNTER' = [MILLIS_COUNTER EXCEPT ![idx] = 0]
    /\ IF idx = U64Bytes
         THEN pc' = next /\ idx' = 0 /\ runs' = 0
         ELSE pc' = at /\ idx' = idx + 1 /\ runs' = runs

(***************************************************************************)
(* millis_init, called once by main before interrupts are enabled          *)
(***************************************************************************)
\* PrescalerSupported if the match had no arm for 64
PrescalerSupported_no64 == PRESCALER \in {8, 256, 1024}

PrescalerSupported == PRESCALER \in {8, 64, 256, 1024}

millis_init_config ==
    /\ MainRuns
    /\ pc = "boot"
    /\ IF PrescalerSupported
         THEN pc' = "init_free" /\ ocie0a' = TRUE
         ELSE pc' = "panic" /\ ocie0a' = ocie0a
    /\ UNCHANGED <<MILLIS_COUNTER, sreg_i, idx, acc, saved_i, ipc, itmp, runs,
                   lastRead>>
    /\ UNCHANGED rangerVars
    /\ UNCHANGED pureVars

millis_init_free ==
    /\ free_enter("init_free", "init_store")
    /\ UNCHANGED <<MILLIS_COUNTER, ocie0a, acc, ipc, itmp, runs, lastRead>>
    /\ UNCHANGED rangerVars
    /\ UNCHANGED pureVars

millis_init_store ==
    /\ store_zero("init_store", "init_restore")
    /\ UNCHANGED <<sreg_i, ocie0a, acc, saved_i, ipc, itmp, lastRead>>
    /\ UNCHANGED rangerVars
    /\ UNCHANGED pureVars

millis_init_restore ==
    /\ free_exit("init_restore", "enable")
    /\ UNCHANGED <<MILLIS_COUNTER, ocie0a, acc, saved_i, ipc, itmp, runs,
                   lastRead>>
    /\ UNCHANGED rangerVars
    /\ UNCHANGED pureVars

\* main.rs: unsafe { avr_device::interrupt::enable() }
interrupt_enable ==
    /\ MainRuns
    /\ pc = "enable"
    /\ pc' = "new_sensor"
    /\ sreg_i' = TRUE
    /\ UNCHANGED <<MILLIS_COUNTER, ocie0a, idx, acc, saved_i, ipc, itmp, runs,
                   lastRead>>
    /\ UNCHANGED rangerVars
    /\ UNCHANGED pureVars

\* HC_SR04::new if it left the counter's clock source unselected
HC_SR04_new_stopped ==
    /\ MainRuns
    /\ pc = "new_sensor"
    /\ pc' = "idle"
    /\ tc1_running' = FALSE
    /\ UNCHANGED clockVars
    /\ UNCHANGED <<tcnt1, trigger_pin, echo, slack, result>>
    /\ UNCHANGED historyVars
    /\ UNCHANGED pureVars

\* main.rs: HC_SR04::new starts TC1 with prescaler 64, one tick per 4 us
HC_SR04_new ==
    /\ MainRuns
    /\ pc = "new_sensor"
    /\ pc' = "idle"
    /\ tc1_running' = TRUE
    /\ UNCHANGED clockVars
    /\ UNCHANGED <<tcnt1, trigger_pin, echo, slack, result>>
    /\ UNCHANGED historyVars
    /\ UNCHANGED pureVars

(***************************************************************************)
(* The TIMER0_COMPA handler.  The hardware clears the interrupt bit when   *)
(* it enters the handler and reti sets it again; the handler's own         *)
(* interrupt::free saves and restores a cleared bit.                       *)
(***************************************************************************)
TIMER0_COMPA_entry ==
    /\ ocie0a
    /\ sreg_i
    /\ ipc = "idle"
    /\ U64Small(MILLIS_COUNTER)
    /\ U64Val(MILLIS_COUNTER) < MaxMillis
    /\ ipc' = "get"
    /\ sreg_i' = FALSE
    /\ UNCHANGED <<MILLIS_COUNTER, ocie0a, pc, idx, acc, saved_i, itmp, runs,
                   lastRead>>
    /\ UNCHANGED rangerVars
    /\ UNCHANGED pureVars

\* TIMER0_COMPA_get if the handler also restarted the counter of TC1
TIMER0_COMPA_get_tcnt1 ==
    /\ ipc = "get"
    /\ itmp' = MILLIS_COUNTER
    /\ ipc' = "set"
    /\ tcnt1' = 0
    /\ UNCHANGED <<MILLIS_COUNTER, sreg_i, ocie0a, pc, idx, acc, saved_i, runs,
                   lastRead>>
    /\ UNCHANGED <<tc1_running, trigger_pin, echo, slack, result>>
    /\ UNCHANGED historyVars
    /\ UNCHANGED pureVars

TIMER0_COMPA_get ==
    /\ ipc = "get"
    /\ itmp' = MILLIS_COUNTER
    /\ ipc' = "set"
    /\ UNCHANGED <<MILLIS_COUNTER, sreg_i, ocie0a, pc, idx, acc, saved_i, runs,
                   lastRead>>
    /\ UNCHANGED rangerVars
    /\ UNCHANGED pureVars

\* TIMER0_COMPA_set if the sum were taken in u8, its carry lost
TIMER0_COMPA_set_u8 ==
    /\ ipc = "set"
    /\ MILLIS_COUNTER' = [itmp EXCEPT ![1] = (itmp[1] + MILLIS_INCREMENT) % 256]
    /\ runs' = runs + 1
    /\ ipc' = "reti"
    /\ UNCHANGED <<sreg_i, ocie0a, pc, idx, acc, saved_i, itmp, lastRead>>
    /\ UNCHANGED rangerVars
    /\ UNCHANGED pureVars

\* TIMER0_COMPA_set if the handler stored the increment instead of the sum
TIMER0_COMPA_set_overwrite ==
    /\ ipc = "set"
    /\ MILLIS_COUNTER' = U64Of(MILLIS_INCREMENT)
    /\ runs' = runs + 1
    /\ ipc' = "reti"
    /\ UNCHANGED <<sreg_i, ocie0a, pc, idx, acc, saved_i, itmp, lastRead>>
    /\ UNCHANGED rangerVars
    /\ UNCHANGED pureVars

TIMER0_COMPA_set ==
    /\ ipc = "set"
    /\ MILLIS_COUNTER' = U64Add(itmp, MILLIS_INCREMENT)
    /\ runs' = runs + 1
    /\ ipc' = "reti"
    /\ UNCHANGED <<sreg_i, ocie0a, pc, idx, acc, saved_i, itmp, lastRead>>
    /\ UNCHANGED rangerVars
    /\ UNCHANGED pureVars

TIMER0_COMPA_reti ==
    /\ ipc = "reti"
    /\ ipc' = "idle"
    /\ itmp' = U64Zero
    /\ sreg_i' = TRUE
    /\ UNCHANGED <<MILLIS_COUNTER, ocie0a, pc, idx, acc, saved_i, runs,
                   lastRead>>
    /\ UNCHANGED rangerVars
    /\ UNCHANGED pureVars

(***************************************************************************)
(* millis()                                                                *)
(***************************************************************************)
millis_call ==
    /\ MainRuns
    /\ pc = "idle"
    /\ pc' = "millis_free"
    /\ UNCHANGED clockVars
    /\ UNCHANGED rangerVars
    /\ UNCHANGED pureVars

millis_free ==
    /\ free_enter("millis_free", "millis_load")
    /\ UNCHANGED <<MILLIS_COUNTER, ocie0a, acc, ipc, itmp, runs, lastRead>>
    /\ UNCHANGED rangerVars
    /\ UNCHANGED pureVars

\* millis_load if it used Cell::take(), which leaves zero behind
millis_load_take ==
    /\ MainRuns
    /\ pc = "millis_load"
    /\ acc' = [acc EXCEPT ![idx] = MILLIS_COUNTER[idx]]
    /\ MILLIS_COUNTER' = [MILLIS_COUNTER EXCEPT ![idx] = 0]
    /\ IF idx = U64Bytes
         THEN pc' = "millis_restore" /\ idx' = 0
         ELSE pc' = "millis_load" /\ idx' = idx + 1
    /\ UNCHANGED <<sreg_i, ocie0a, saved_i, ipc, itmp, runs, lastRead>>
    /\ UNCHANGED rangerVars
    /\ UNCHANGED pureVars

\* Cell::get() on the u64: one byte load per step
millis_load ==
    /\ MainRuns
    /\ pc = "millis_load"
    /\ acc' = [acc EXCEPT ![idx] = MILLIS_COUNTER[idx]]
    /\ IF idx = U64Bytes
         THEN pc' = "millis_restore" /\ idx' = 0
         ELSE pc' = "millis_load" /\ idx' = idx + 1
    /\ UNCHANGED <<MILLIS_COUNTER, sreg_i, ocie0a, saved_i, ipc, itmp, runs,
                   lastRead>>
    /\ UNCHANGED rangerVars
    /\ UNCHANGED pureVars

\* SREG is restored and the loaded value is returned to the caller
millis_restore ==
    /\ free_exit("millis_restore", "idle")
    /\ lastRead' = U64Val(acc)
    /\ acc' = U64Zero
    /\ UNCHANGED <<MILLIS_COUNTER, ocie0a, saved_i, ipc, itmp, runs>>
    /\ UNCHANGED rangerVars
    /\ UNCHANGED pureVars

(***************************************************************************)
(* reset_millis()                                                          *)
(***************************************************************************)
reset_millis_call ==
    /\ MainRuns
    /\ pc = "idle"
    /\ pc' = "reset_free"
    /\ lastRead' = NoRead
    /\ UNCHANGED <<MILLIS_COUNTER, sreg_i, ocie0a, idx, acc, saved_i, ipc, itmp,
                   runs>>
    /\ UNCHANGED rangerVars
    /\ UNCHANGED pureVars

reset_millis_free ==
    /\ free_enter("reset_free", "reset_store")
    /\ UNCHANGED <<MILLIS_COUNTER, ocie0a, acc, ipc, itmp, runs, lastRead>>
    /\ UNCHANGED rangerVars
    /\ UNCHANGED pureVars

reset_millis_store ==
    /\ store_zero("reset_store", "reset_restore")
    /\ UNCHANGED <<sreg_i, ocie0a, acc, saved_i, ipc, itmp, lastRead>>
    /\ UNCHANGED rangerVars
    /\ UNCHANGED pureVars

reset_millis_restore ==
    /\ free_exit("reset_restore", "idle")
    /\ UNCHANGED <<MILLIS_COUNTER, ocie0a, acc, saved_i, ipc, itmp, runs,
                   lastRead>>
    /\ UNCHANGED rangerVars
    /\ UNCHANGED pureVars

(***************************************************************************)
(* The environment of a measurement: the TC1 counter and the Echo line.    *)
(* Ticks are tracked from the first counter reset of a call to its return; *)
(* outside of that the program never reads the counter.  The CPU executes  *)
(* at least one instruction every MaxStepTicks ticks.                      *)
(***************************************************************************)
RisePhase == {"rise_poll", "rise_check"}
FallPhase == {"reset1", "reset2", "fall_poll", "fall_check"}
TimedPcs == RisePhase \cup FallPhase \cup {"read"}
TriggerPcs == {"trig_high", "trig_delay", "trig_low", "reset0"}

\* TC1_tick if the counter were 8 bits wide, as those of TC0 and TC2 are
TC1_tick_8bit ==
    /\ tc1_running
    /\ pc \in TimedPcs
    /\ slack < MaxStepTicks
    /\ slack' = slack + 1
    /\ tcnt1' = (tcnt1 + 1) % 256
    /\ pulseTicks' = IF pulse = "high" THEN pulseTicks + 1 ELSE pulseTicks
    /\ UNCHANGED <<pc, tc1_running, trigger_pin, echo, result, pulse, everHigh,
                   enteredFall, fellInWindow>>
    /\ UNCHANGED clockVars
    /\ UNCHANGED pureVars

TC1_tick ==
    /\ tc1_running
    /\ pc \in TimedPcs
    /\ slack < MaxStepTicks
    /\ slack' = slack + 1
    /\ tcnt1' = (tcnt1 + 1) % TCNT1_MODULUS
    /\ pulseTicks' = IF pulse = "high" THEN pulseTicks + 1 ELSE pulseTicks
    /\ UNCHANGED <<pc, tc1_running, trigger_pin, echo, result, pulse, everHigh,
                   enteredFall, fellInWindow>>
    /\ UNCHANGED clockVars
    /\ UNCHANGED pureVars

\* The history of the echo line within a call.  pulse is
\*   "none"   the line is low and the call has not seen it high
\*   "stale"  the line was already high at the first counter reset
\*   "high"   the line rose during the rising-edge wait and is still high
\*   "fell"   that pulse was seen high by the call and has fallen since
\*   "dirty"  anything else (a second edge after the call saw the line high)
\* A pulse that ends before the call has seen it is forgotten.
echo_rise ==
    /\ ~echo
    /\ echo' = TRUE
    /\ IF pc \in TimedPcs
         THEN /\ everHigh' = (everHigh \/ pc \in RisePhase)
              /\ pulse' = IF pulse = "none" /\ pc \in RisePhase THEN "high" ELSE "dirty"
              /\ pulseTicks' = 0
         ELSE UNCHANGED <<everHigh, pulse, pulseTicks>>
    /\ UNCHANGED <<pc, tc1_running, tcnt1, trigger_pin, slack, result, enteredFall,
                   fellInWindow>>
    /\ UNCHANGED clockVars
    /\ UNCHANGED pureVars

echo_fall ==
    /\ echo
    /\ echo' = FALSE
    /\ IF pc \in RisePhase
         THEN /\ pulse' = "none"
              /\ pulseTicks' = 0
              /\ fellInWindow' = fellInWindow
         ELSE IF pc \in FallPhase
         THEN /\ pulse' = IF pulse = "high" THEN "fell" ELSE "dirty"
              /\ pulseTicks' = IF pulse = "high" THEN pulseTicks ELSE 0
              /\ fellInWindow' = (fellInWindow \/ tcnt1 <= FALL_TIMEOUT)
         ELSE UNCHANGED <<pulse, pulseTicks, fellInWindow>>
    /\ UNCHANGED <<pc, tc1_running, tcnt1, trigger_pin, slack, result, everHigh,
                   enteredFall>>
    /\ UNCHANGED clockVars
    /\ UNCHANGED pureVars

\* the echo line changes level, its history not being recorded
echo_change ==
    /\ echo' = ~echo
    /\ UNCHANGED <<pc, tc1_running, tcnt1, trigger_pin, slack, result>>
    /\ UNCHANGED historyVars
    /\ UNCHANGED clockVars
    /\ UNCHANGED pureVars

(***************************************************************************)
(* HC_SR04::get_distance                                                   *)
(***************************************************************************)
get_distance_call ==
    /\ MainRuns
    /\ pc = "idle"
    /\ pc' = "trig_high"
    /\ result' = NoResult
    /\ pulse' = "none"
    /\ pulseTicks' = 0
    /\ everHigh' = FALSE
    /\ enteredFall' = FALSE
    /\ fellInWindow' = FALSE
    /\ UNCHANGED <<tc1_running, tcnt1, trigger_pin, echo, slack>>
    /\ UNCHANGED clockVars
    /\ UNCHANGED pureVars

\* self.trigger_pin.set_high()
gd_trigger_high ==
    /\ MainRuns
    /\ pc = "trig_high"
    /\ pc' = "trig_delay"
    /\ trigger_pin' = TRUE
    /\ UNCHANGED <<tc1_running, tcnt1, echo, slack, result>>
    /\ UNCHANGED historyVars
    /\ UNCHANGED clockVars
    /\ UNCHANGED pureVars

\* arduino_hal::delay_us(10)
gd_trigger_delay ==
    /\ MainRuns
    /\ pc = "trig_delay"
    /\ pc' = "trig_low"
    /\ UNCHANGED rangerVars
    /\ UNCHANGED clockVars
    /\ UNCHANGED pureVars

\* gd_trigger_low if the pin were left high
gd_trigger_low_skipped ==
    /\ MainRuns
    /\ pc = "trig_low"
    /\ pc' = "reset0"
    /\ UNCHANGED rangerVars
    /\ UNCHANGED clockVars
    /\ UNCHANGED pureVars

\* self.trigger_pin.set_low()
gd_trigger_low ==
    /\ MainRuns
    /\ pc = "trig_low"
    /\ pc' = "reset0"
    /\ trigger_pin' = FALSE
    /\ UNCHANGED <<tc1_running, tcnt1, echo, slack, result>>
    /\ UNCHANGED historyVars
    /\ UNCHANGED clockVars
    /\ UNCHANGED pureVars

\* the first counter reset; the history of the call starts here
gd_reset0 ==
    /\ MainRuns
    /\ pc = "reset0"
    /\ pc' = "rise_poll"
    /\ tcnt1' = 0
    /\ slack' = 0
    /\ pulse' = IF echo THEN "stale" ELSE "none"
    /\ pulseTicks' = 0
    /\ everHigh' = echo
    /\ enteredFall' = FALSE
    /\ fellInWindow' = FALSE
    /\ UNCHANGED <<tc1_running, trigger_pin, echo, result>>
    /\ UNCHANGED clockVars
    /\ UNCHANGED pureVars

\* gd_rise_poll if the counter were not reset once the echo is seen high
gd_rise_poll_noreset ==
    /\ MainRuns
    /\ pc = "rise_poll"
    /\ slack' = 0
    /\ IF ~echo
         THEN pc' = "rise_check" /\ enteredFall' = enteredFall
         ELSE pc' = "fall_poll" /\ enteredFall' = TRUE
    /\ UNCHANGED <<tc1_running, tcnt1, trigger_pin, echo, result, pulse,
                   pulseTicks, everHigh, fellInWindow>>
    /\ UNCHANGED clockVars
    /\ UNCHANGED pureVars

\* while self.echo_pin.is_low()
gd_rise_poll ==
    /\ MainRuns
    /\ pc = "rise_poll"
    /\ slack' = 0
    /\ IF ~echo
         THEN pc' = "rise_check" /\ enteredFall' = enteredFall
         ELSE pc' = "reset1" /\ enteredFall' = TRUE
    /\ UNCHANGED <<tc1_running, tcnt1, trigger_pin, echo, result, pulse,
                   pulseTicks, everHigh, fellInWindow>>
    /\ UNCHANGED clockVars
    /\ UNCHANGED pureVars

\* gd_rise_check if the timeout left the loop instead of returning
gd_rise_check_break ==
    /\ MainRuns
    /\ pc = "rise_check"
    /\ slack' = 0
    /\ pc' = IF tcnt1 > RISE_TIMEOUT THEN "reset1" ELSE "rise_poll"
    /\ UNCHANGED <<tc1_running, tcnt1, trigger_pin, echo, result>>
    /\ UNCHANGED historyVars
    /\ UNCHANGED clockVars
    /\ UNCHANGED pureVars

\* gd_rise_check if it compared against the falling-edge timeout
gd_rise_check_long ==
    /\ MainRuns
    /\ pc = "rise_check"
    /\ slack' = 0
    /\ IF tcnt1 > FALL_TIMEOUT
         THEN pc' = "idle" /\ result' = Unknown
         ELSE pc' = "rise_poll" /\ result' = result
    /\ UNCHANGED <<tc1_running, tcnt1, trigger_pin, echo>>
    /\ UNCHANGED historyVars
    /\ UNCHANGED clockVars
    /\ UNCHANGED pureVars

\* gd_rise_check if a timeout started the measurement over
gd_rise_check_retry ==
    /\ MainRuns
    /\ pc = "rise_check"
    /\ slack' = 0
    /\ pc' = IF tcnt1 > RISE_TIMEOUT THEN "trig_high" ELSE "rise_poll"
    /\ UNCHANGED <<tc1_running, tcnt1, trigger_pin, echo, result>>
    /\ UNCHANGED historyVars
    /\ UNCHANGED clockVars
    /\ UNCHANGED pureVars

\* if self.tc1.tcnt1.read().bits() > 188 { return Unknown }
gd_rise_check ==
    /\ MainRuns
    /\ pc = "rise_check"
    /\ slack' = 0
    /\ IF tcnt1 > RISE_TIMEOUT
         THEN pc' = "idle" /\ result' = Unknown
         ELSE pc' = "rise_poll" /\ result' = result
    /\ UNCHANGED <<tc1_running, tcnt1, trigger_pin, echo>>
    /\ UNCHANGED historyVars
    /\ UNCHANGED clockVars
    /\ UNCHANGED pureVars

\* the two counter resets after the rising edge
gd_reset1 ==
    /\ MainRuns
    /\ pc = "reset1"
    /\ pc' = "reset2"
    /\ tcnt1' = 0
    /\ slack' = 0
    /\ UNCHANGED <<tc1_running, trigger_pin, echo, result>>
    /\ UNCHANGED historyVars
    /\ UNCHANGED clockVars
    /\ UNCHANGED pureVars

gd_reset2 ==
    /\ MainRuns
    /\ pc = "reset2"
    /\ pc' = "fall_poll"
    /\ tcnt1' = 0
    /\ slack' = 0
    /\ UNCHANGED <<tc1_running, trigger_pin, echo, result>>
    /\ UNCHANGED historyVars
    /\ UNCHANGED clockVars
    /\ UNCHANGED pureVars

\* while self.echo_pin.is_high()
gd_fall_poll ==
    /\ MainRuns
    /\ pc = "fall_poll"
    /\ slack' = 0
    /\ pc' = IF echo THEN "fall_check" ELSE "read"
    /\ UNCHANGED <<tc1_running, tcnt1, trigger_pin, echo, result>>
    /\ UNCHANGED historyVars
    /\ UNCHANGED clockVars
    /\ UNCHANGED pureVars

\* if self.tc1.tcnt1.read().bits() > 25000 { return Infinity }
gd_fall_check ==
    /\ MainRuns
    /\ pc = "fall_check"
    /\ slack' = 0
    /\ IF tcnt1 > FALL_TIMEOUT
         THEN pc' = "idle" /\ result' = Infinity
         ELSE pc' = "fall_poll" /\ result' = result
    /\ UNCHANGED <<tc1_running, tcnt1, trigger_pin, echo>>
    /\ UNCHANGED historyVars
    /\ UNCHANGED clockVars
    /\ UNCHANGED pureVars

\* return Measured(Distance::new(self.tc1.tcnt1.read().bits()))
gd_read ==
    /\ MainRuns
    /\ pc = "read"
    /\ pc' = "idle"
    /\ slack' = 0
    /\ result' = Measured(tcnt1)
    /\ UNCHANGED <<tc1_running, tcnt1, trigger_pin, echo>>
    /\ UNCHANGED historyVars
    /\ UNCHANGED clockVars
    /\ UNCHANGED pureVars

(***************************************************************************)
(* Distance::to_um and Distance::to_mm                                     *)
(***************************************************************************)
\* to_um if the product were taken in u16, before widening
to_um_u16(d) == U64Of((d.ticks * UM_PER_TICK) % (U16_MAX + 1))

\* self.ticks as u64 * 6805
to_um(d) == U64Mul(U64Of(d.ticks), UM_PER_TICK)

\* to_mm if it rounded to the nearest millimetre
to_mm_rounded(d) == U64Div(U64Add(to_um(d), UM_PER_MM \div 2), UM_PER_MM)

\* self.to_um() / 1000
to_mm(d) == U64Div(to_um(d), UM_PER_MM)

apply_to_um ==
    /\ cstep = 0
    /\ cstep' = 1
    /\ um1' = to_um(d1)
    /\ um2' = to_um(d2)
    /\ UNCHANGED <<d1, d2, mm1, mm2>>
    /\ UNCHANGED <<pc, clockVars, rangerVars, driverVars>>

apply_to_mm ==
    /\ cstep = 1
    /\ cstep' = 2
    /\ mm1' = to_mm(d1)
    /\ mm2' = to_mm(d2)
    /\ UNCHANGED <<d1, d2, um1, um2>>
    /\ UNCHANGED <<pc, clockVars, rangerVars, driverVars>>

\* the tick counts that a second Distance is drawn from, given the first
ProbeTicks(t) == {0, U16_MAX, IF t < U16_MAX THEN t + 1 ELSE t}

(***************************************************************************)
(* Servo (servo.rs)                                                        *)
(***************************************************************************)
notServo == <<pc, clockVars, rangerVars, convVars, motorVars, lineVars>>

\* a - b in u32 without overflow checks, for a, b below 2^31
wrapping_sub(a, b) ==
    LET borrow == IF a % 65536 < b % 65536 THEN 1 ELSE 0
    IN  [hi |-> (131072 + (a \div 65536) - (b \div 65536) - borrow) % 65536,
         lo |-> (65536 + (a % 65536) - (b % 65536)) % 65536]

\* set_angle(angle) is set_phase(ServoPhase::from_angle(angle)); set_phase
\* stores the phase before its loop
set_angle(angle) ==
    /\ sv_pc = "idle"
    /\ sv_angle' = angle
    /\ current_phase' = ServoPhase_from_angle(angle)
    /\ sv_i' = 0
    /\ sv_pc' = "loop"
    /\ UNCHANGED <<servo_pin, high_us, low_ms, low_us>>
    /\ UNCHANGED notServo

set_angle_call == \E angle \in 0..U8_MAX : set_angle(angle)

\* for _ in 0..5 { self.write_phase(phase); }
set_phase_loop ==
    /\ sv_pc = "loop"
    /\ sv_pc' = IF sv_i < SERVO_PULSES THEN "set_high" ELSE "idle"
    /\ UNCHANGED <<servo_pin, current_phase, sv_angle, sv_i, high_us, low_ms,
                   low_us>>
    /\ UNCHANGED notServo

\* self.pin.set_high(): a pulse begins
write_phase_set_high ==
    /\ sv_pc = "set_high"
    /\ servo_pin' = TRUE
    /\ high_us' = 0
    /\ low_ms' = 0
    /\ low_us' = U32(0)
    /\ sv_pc' = "delay_ms_1"
    /\ UNCHANGED <<current_phase, sv_angle, sv_i>>
    /\ UNCHANGED notServo

\* arduino_hal::delay_ms(1)
write_phase_delay_ms_1 ==
    /\ sv_pc = "delay_ms_1"
    /\ high_us' = high_us + 1000
    /\ sv_pc' = "delay_us_value"
    /\ UNCHANGED <<servo_pin, current_phase, sv_angle, sv_i, low_ms, low_us>>
    /\ UNCHANGED notServo

\* arduino_hal::delay_us(phase.value)
write_phase_delay_us_value ==
    /\ sv_pc = "delay_us_value"
    /\ high_us' = high_us + current_phase
    /\ sv_pc' = "set_low"
    /\ UNCHANGED <<servo_pin, current_phase, sv_angle, sv_i, low_ms, low_us>>
    /\ UNCHANGED notServo

\* self.pin.set_low()
write_phase_set_low ==
    /\ sv_pc = "set_low"
    /\ servo_pin' = FALSE
    /\ sv_pc' = "delay_ms_18"
    /\ UNCHANGED <<current_phase, sv_angle, sv_i, high_us, low_ms, low_us>>
    /\ UNCHANGED notServo

\* arduino_hal::delay_ms(18)
write_phase_delay_ms_18 ==
    /\ sv_pc = "delay_ms_18"
    /\ low_ms' = 18
    /\ sv_pc' = "delay_us_rest"
    /\ UNCHANGED <<servo_pin, current_phase, sv_angle, sv_i, high_us, low_us>>
    /\ UNCHANGED notServo

\* arduino_hal::delay_us(1000 - phase.value): when the u32 subtraction
\* overflows, a build with overflow checks panics and one without wraps
write_phase_delay_us_rest ==
    /\ sv_pc = "delay_us_rest"
    /\ \/ /\ low_us' = wrapping_sub(1000, current_phase)
          /\ sv_i' = sv_i + 1
          /\ sv_pc' = "loop"
       \/ /\ current_phase > 1000
          /\ sv_pc' = "panic"
          /\ UNCHANGED <<sv_i, low_us>>
    /\ UNCHANGED <<servo_pin, current_phase, sv_angle, high_us, low_ms>>
    /\ UNCHANGED notServo

write_phase ==
    \/ write_phase_set_high
    \/ write_phase_delay_ms_1
    \/ write_phase_delay_us_value
    \/ write_phase_set_low
    \/ write_phase_delay_ms_18
    \/ write_phase_delay_us_rest

(***************************************************************************)
(* MotorChassis (l287n_motor_driver.rs)                                    *)
(***************************************************************************)
notMotor == <<pc, clockVars, rangerVars, convVars, servoVars, lineVars>>

ChassisDirection == {"Forward", "Backward", "Left", "Right"}

\* the PairDirection that set_direction passes to set_pair_a_direction
PairA(direction) ==
    IF direction \in {"Forward", "Right"} THEN "Forward" ELSE "Backward"

\* the PairDirection that set_direction passes to set_pair_b_direction
PairB(direction) ==
    IF direction \in {"Forward", "Left"} THEN "Forward" ELSE "Backward"

\* the positions of the main context inside set_direction and set_enabled
DirectionPcs == {"a_first", "a_second", "b_first", "b_second"}
EnabledPcs == {"en_a", "en_b"}

set_direction_call ==
    /\ m_pc = "idle"
    /\ \E direction \in ChassisDirection : m_direction' = direction
    /\ m_pc' = "a_first"
    /\ UNCHANGED <<pin_enable_a, pin_enable_b, pin_a1, pin_a2, pin_b1, pin_b2,
                   m_en, last_direction>>
    /\ UNCHANGED notMotor

\* set_pair_a_direction: pin_a1 is written first, high for Forward
set_pair_a_direction_first ==
    /\ m_pc = "a_first"
    /\ pin_a1' = (PairA(m_direction) = "Forward")
    /\ m_pc' = "a_second"
    /\ UNCHANGED <<pin_enable_a, pin_enable_b, pin_a2, pin_b1, pin_b2,
                   m_direction, m_en, last_direction>>
    /\ UNCHANGED notMotor

\* then pin_a2, low for Forward
set_pair_a_direction_second ==
    /\ m_pc = "a_second"
    /\ pin_a2' = (PairA(m_direction) = "Backward")
    /\ m_pc' = "b_first"
    /\ UNCHANGED <<pin_enable_a, pin_enable_b, pin_a1, pin_b1, pin_b2,
                   m_direction, m_en, last_direction>>
    /\ UNCHANGED notMotor

\* set_pair_b_direction: pin_b2 is written first, high for Forward
set_pair_b_direction_first ==
    /\ m_pc = "b_first"
    /\ pin_b2' = (PairB(m_direction) = "Forward")
    /\ m_pc' = "b_second"
    /\ UNCHANGED <<pin_enable_a, pin_enable_b, pin_a1, pin_a2, pin_b1,
                   m_direction, m_en, last_direction>>
    /\ UNCHANGED notMotor

\* set_pair_b_direction without its write of pin_b1
set_pair_b_direction_second_skipped ==
    /\ m_pc = "b_second"
    /\ m_pc' = "idle"
    /\ last_direction' = m_direction
    /\ UNCHANGED <<pin_enable_a, pin_enable_b, pin_a1, pin_a2, pin_b1, pin_b2,
                   m_direction, m_en>>
    /\ UNCHANGED notMotor

\* then pin_b1, low for Forward; set_direction returns
set_pair_b_direction_second ==
    /\ m_pc = "b_second"
    /\ pin_b1' = (PairB(m_direction) = "Backward")
    /\ m_pc' = "idle"
    /\ last_direction' = m_direction
    /\ UNCHANGED <<pin_enable_a, pin_enable_b, pin_a1, pin_a2, pin_b2,
                   m_direction, m_en>>
    /\ UNCHANGED notMotor

set_direction ==
    \/ set_direction_call
    \/ set_pair_a_direction_first
    \/ set_pair_a_direction_second
    \/ set_pair_b_direction_first
    \/ set_pair_b_direction_second

set_enabled_call ==
    /\ m_pc = "idle"
    /\ \E pair_a_en \in BOOLEAN, pair_b_en \in BOOLEAN :
          m_en' = <<pair_a_en, pair_b_en>>
    /\ m_pc' = "en_a"
    /\ UNCHANGED <<pin_enable_a, pin_enable_b, pin_a1, pin_a2, pin_b1, pin_b2,
                   m_direction, last_direction>>
    /\ UNCHANGED notMotor

\* self.pin_enable_a.set_state(pair_a_en.into())
set_enabled_a ==
    /\ m_pc = "en_a"
    /\ pin_enable_a' = m_en[1]
    /\ m_pc' = "en_b"
    /\ UNCHANGED <<pin_enable_b, pin_a1, pin_a2, pin_b1, pin_b2,
                   m_direction, m_en, last_direction>>
    /\ UNCHANGED notMotor

\* self.pin_enable_b.set_state(pair_b_en.into())
set_enabled_b ==
    /\ m_pc = "en_b"
    /\ pin_enable_b' = m_en[2]
    /\ m_pc' = "idle"
    /\ UNCHANGED <<pin_enable_a, pin_a1, pin_a2, pin_b1, pin_b2,
                   m_direction, m_en, last_direction>>
    /\ UNCHANGED notMotor

set_enabled == set_enabled_call \/ set_enabled_a \/ set_enabled_b

\* the direction that the pins of a pair select: pair A runs forward with
\* pin_a1 high, pair B with pin_b2 high
PairADirection == IF pin_a1 THEN "Forward" ELSE "Backward"
PairBDirection == IF pin_b2 THEN "Forward" ELSE "Backward"

(***************************************************************************)
(* LineTracker (line_tracker.rs)                                           *)
(***************************************************************************)
notLine == <<pc, clockVars, rangerVars, convVars, servoVars, motorVars>>

LineState == {"Light", "Dark"}

LineBiasDirection == {"VeryLeft", "SlightlyLeft", "Center", "SlightlyRight",
                      "VeryRight", "NotOnLine", "OnPerpendicularLine"}

\* impl From<bool> for LineState
LineState_from(value) == IF value THEN "Dark" ELSE "Light"

LinePosition(l, m, r) == [left |-> l, mid |-> m, right |-> r]

to_line_tracker_direction(bias) ==
    CASE bias \in {"VeryLeft", "SlightlyLeft"} -> "Left"
      [] bias \in {"VeryRight", "SlightlyRight"} -> "Right"
      [] OTHER -> "Center"

get_bias_direction_dark(p) ==
    LET m == <<p.left, p.mid, p.right>>
    IN  CASE m = <<"Light", "Light", "Dark">> -> "VeryRight"
          [] m = <<"Light", "Dark", "Dark">> -> "SlightlyRight"
          [] m = <<"Light", "Dark", "Light">> -> "Center"
          [] m = <<"Dark", "Dark", "Light">> -> "SlightlyLeft"
          [] m = <<"Dark", "Light", "Light">> -> "VeryLeft"
          [] m = <<"Light", "Light", "Light">> -> "NotOnLine"
          [] m = <<"Dark", "Dark", "Dark">> -> "OnPerpendicularLine"
          [] m = <<"Dark", "Light", "Dark">> -> "NotOnLine"

\* get_bias_direction_light with the table of the dark mode
get_bias_direction_light_as_dark(p) == get_bias_direction_dark(p)

get_bias_direction_light(p) ==
    LET m == <<p.left, p.mid, p.right>>
    IN  CASE m = <<"Dark", "Dark", "Light">> -> "VeryRight"
          [] m = <<"Dark", "Light", "Light">> -> "SlightlyRight"
          [] m = <<"Dark", "Light", "Dark">> -> "Center"
          [] m = <<"Light", "Light", "Dark">> -> "SlightlyLeft"
          [] m = <<"Light", "Dark", "Dark">> -> "VeryLeft"
          [] m = <<"Dark", "Dark", "Dark">> -> "NotOnLine"
          [] m = <<"Light", "Light", "Light">> -> "OnPerpendicularLine"
          [] m = <<"Light", "Dark", "Light">> -> "NotOnLine"

\* the surface under one of the three sensors changes
line_pins_change ==
    /\ \/ pin_left' = ~pin_left /\ UNCHANGED <<pin_center, pin_right>>
       \/ pin_center' = ~pin_center /\ UNCHANGED <<pin_left, pin_right>>
       \/ pin_right' = ~pin_right /\ UNCHANGED <<pin_left, pin_center>>
    /\ UNCHANGED <<position, bias_dark, bias_light, tracker_dark,
                   tracker_light, lstep>>
    /\ UNCHANGED notLine

\* measure_full: a sensor on the line drives its pin low, is_low() is Dark
measure_full ==
    /\ position' = LinePosition(LineState_from(~pin_left),
                                LineState_from(~pin_center),
                                LineState_from(~pin_right))
    /\ bias_dark' = "None"
    /\ bias_light' = "None"
    /\ tracker_dark' = "None"
    /\ tracker_light' = "None"
    /\ lstep' = 1
    /\ UNCHANGED <<pin_left, pin_center, pin_right>>
    /\ UNCHANGED notLine

apply_get_bias_direction ==
    /\ lstep = 1
    /\ bias_dark' = get_bias_direction_dark(position)
    /\ bias_light' = get_bias_direction_light(position)
    /\ lstep' = 2
    /\ UNCHANGED <<pin_left, pin_center, pin_right, position, tracker_dark,
                   tracker_light>>
    /\ UNCHANGED notLine

apply_to_line_tracker_direction ==
    /\ lstep = 2
    /\ tracker_dark' = to_line_tracker_direction(bias_dark)
    /\ tracker_light' = to_line_tracker_direction(bias_light)
    /\ lstep' = 3
    /\ UNCHANGED <<pin_left, pin_center, pin_right, position, bias_dark,
                   bias_light>>
    /\ UNCHANGED notLine

\* the reading with every sensor inverted
Inverted(p) ==
    LET inv(x) == IF x = "Light" THEN "Dark" ELSE "Light"
    IN  LinePosition(inv(p.left), inv(p.mid), inv(p.right))

(***************************************************************************)
(* Specifications                                                          *)
(***************************************************************************)
StartUp ==
    \/ millis_init_config
    \/ millis_init_free
    \/ millis_init_store
    \/ millis_init_restore
    \/ interrupt_enable
    \/ HC_SR04_new

Handler ==
    \/ TIMER0_COMPA_entry
    \/ TIMER0_COMPA_get
    \/ TIMER0_COMPA_set
    \/ TIMER0_COMPA_reti

ClockCalls ==
    \/ millis_call
    \/ millis_free
    \/ millis_load
    \/ millis_restore
    \/ reset_millis_call
    \/ reset_millis_free
    \/ reset_millis_store
    \/ reset_millis_restore

\* the clock: start-up, the handler, and a main context that calls
\* millis() and reset_millis() in any order
NextClock == StartUp \/ Handler \/ ClockCalls

SpecClock == Init /\ [][NextClock]_vars

Measurement ==
    \/ gd_trigger_high
    \/ gd_trigger_delay
    \/ gd_trigger_low
    \/ gd_reset0
    \/ gd_rise_poll
    \/ gd_rise_check
    \/ gd_reset1
    \/ gd_reset2
    \/ gd_fall_poll
    \/ gd_fall_check
    \/ gd_read

Environment ==
    \/ TC1_tick
    \/ echo_rise
    \/ echo_fall

\* the ranger: start-up, a main context that calls get_distance() again and
\* again, the counter and an echo line that may do anything
NextRanger == StartUp \/ get_distance_call \/ Measurement \/ Environment

SpecRanger == Init /\ [][NextRanger]_vars

\* the same program and environment without the history of the echo line,
\* where the CPU keeps executing the measurement and the counter keeps counting
NextRangerFair ==
    StartUp \/ get_distance_call \/ Measurement \/ TC1_tick \/ echo_change

SpecRangerFair ==
    Init /\ [][NextRangerFair]_vars /\ WF_vars(Measurement) /\ WF_vars(TC1_tick)

\* the handler entered while the clock and the ranger run together
TIMER0_COMPA_entry_joint ==
    /\ U64Val(MILLIS_COUNTER) < MaxJointMillis
    /\ TIMER0_COMPA_entry

\* a tick of TC1 while the clock and the ranger run together
TC1_tick_joint ==
    /\ tcnt1 < MaxJointTicks
    /\ TC1_tick

HandlerJoint ==
    \/ TIMER0_COMPA_entry_joint
    \/ TIMER0_COMPA_get
    \/ TIMER0_COMPA_set
    \/ TIMER0_COMPA_reti

\* the whole program: start-up, then a main context that calls millis(),
\* reset_millis() and get_distance() in any order, the handler interrupting
\* it wherever interrupts are enabled, the counter and the echo line
NextJoint ==
    \/ StartUp
    \/ HandlerJoint
    \/ ClockCalls
    \/ get_distance_call
    \/ Measurement
    \/ TC1_tick_joint
    \/ echo_change

SpecJoint == Init /\ [][NextJoint]_vars

\* the conversions applied to every Distance, paired with a second one
InitDistances ==
    /\ InitMachine
    /\ InitConv
    /\ InitDrivers
    /\ d1 \in {Distance_new(t) : t \in 0..U16_MAX}
    /\ d2 \in {Distance_new(t) : t \in ProbeTicks(d1.ticks)}

NextConv == apply_to_um \/ apply_to_mm

SpecConv == InitDistances /\ [][NextConv]_vars

NextServo == set_angle_call \/ set_phase_loop \/ write_phase

SpecServo == Init /\ [][NextServo]_vars

NextMotor == set_direction \/ set_enabled

SpecMotor == Init /\ [][NextMotor]_vars

NextLine ==
    \/ line_pins_change
    \/ measure_full
    \/ apply_get_bias_direction
    \/ apply_to_line_tracker_direction

SpecLine == Init /\ [][NextLine]_vars

(***************************************************************************)
(* Properties                                                              *)
(***************************************************************************)
\* the main context is inside the closure of an interrupt::free
InCritical == pc \in {"init_store", "init_restore", "millis_load",
                      "millis_restore", "reset_store", "reset_restore"}

\* the main context is part way through zeroing the counter
Zeroing == pc \in {"init_store", "reset_store"}

\* the latest get_distance() call has returned
Returned == pc = "idle" /\ result.tag # "None"

\* C1: the counter is MILLIS_INCREMENT (= 1) times the number of handler runs
\* since it was last zeroed: it is 0 after millis_init() and after
\* reset_millis(), and millis() returns that product.
C1_CounterCountsRuns ==
    /\ MILLIS_INCREMENT = 1
    /\ ~Zeroing => /\ U64Small(MILLIS_COUNTER)
                   /\ U64Val(MILLIS_COUNTER) = runs * MILLIS_INCREMENT
    /\ pc \in {"init_restore", "enable", "reset_restore"} => MILLIS_COUNTER = U64Zero
    /\ pc = "millis_restore" => /\ U64Small(acc)
                                /\ U64Val(acc) = runs * MILLIS_INCREMENT

C1_Witness ==
    /\ pc = "millis_restore"
    /\ runs = 2
    /\ U64Val(acc) = 2 * MILLIS_INCREMENT

\* C2: the handler's read-modify-write, millis() and reset_millis() run with
\* interrupts disabled and never overlap: the handler stores the successor of
\* the value the counter still holds, millis() returns the bytes of one
\* counter value, and the bytes reset_millis() has zeroed stay zero.
C2_Atomic ==
    /\ InCritical => ~sreg_i /\ ipc = "idle"
    /\ ipc # "idle" => ~sreg_i
    /\ ipc = "set" => itmp = MILLIS_COUNTER
    /\ pc = "millis_load" => \A i \in 1..(idx - 1) : acc[i] = MILLIS_COUNTER[i]
    /\ pc = "millis_restore" => acc = MILLIS_COUNTER
    /\ pc = "reset_store" => \A i \in 1..(idx - 1) : MILLIS_COUNTER[i] = 0
    /\ pc = "reset_restore" => MILLIS_COUNTER = U64Zero

\* millis() has loaded a value whose two low bytes changed together, called
\* with interrupts enabled
C2_Witness ==
    /\ pc = "millis_restore"
    /\ saved_i
    /\ acc = U64Of(256)

C4_OutOfRange == Returned /\ enteredFall /\ ~fellInWindow => result = Infinity

\* the call measured one clean echo pulse: it rose during the rising-edge
\* wait, was seen high, fell, and the call returned Measured
MeasuredCleanPulse == Returned /\ result.tag = "Measured" /\ pulse = "fell"

\* the ticks by which the counter reset can lag the rising edge (the edge, the
\* counter check, the poll that sees it, the first reset, the second reset),
\* and the counter read can lag the falling edge
RiseLag == 4 * MaxStepTicks
FallLag == 3 * MaxStepTicks

\* C5 as stated: a clean pulse of width t2 is reported as exactly Measured(t2)
C5_ExactWidth == MeasuredCleanPulse => result.ticks = pulseTicks

\* C5 as amended: a clean pulse of width t2 is reported as Measured(t) with t
\* within the polling lag of t2, whatever the time t1 before the rising edge,
\* and a pulse the call saw rise is reported as Measured if it fell more than
\* the polling lag before the timeout.
C5_WidthWithinLag ==
    /\ MeasuredCleanPulse => /\ result.ticks >= pulseTicks - RiseLag
                             /\ result.ticks <= pulseTicks + FallLag
    /\ Returned /\ pulse = "fell" /\ pulseTicks + FallLag <= FALL_TIMEOUT
         => result.tag = "Measured"

\* a pulse of 147 ticks (one metre) reported as Measured(147)
C5_Witness ==
    /\ MeasuredCleanPulse
    /\ pulseTicks = 147
    /\ result.ticks = 147

\* C6: every get_distance() call returns a result, whatever the echo does.
C6_Terminates ==
    (pc \in TriggerPcs \cup TimedPcs) ~> (pc = "idle" /\ result.tag # "None")

C6_Witness == Returned /\ result = Infinity /\ ~echo

\* C7: the rising-edge wait returns Unknown at the first counter check that
\* reads more than 188, so it ends within two instructions of the timeout, far
\* from the 25000 ticks of the falling-edge wait, and a call whose echo never
\* rose does not enter the falling-edge wait.
C7_BoundedNonResponse ==
    /\ pc = "rise_poll" => tcnt1 <= RISE_TIMEOUT + slack
    /\ pc = "rise_check" => tcnt1 <= RISE_TIMEOUT + MaxStepTicks + slack
    /\ Returned /\ result = Unknown =>
         /\ ~enteredFall
         /\ tcnt1 > RISE_TIMEOUT
         /\ tcnt1 <= RISE_TIMEOUT + 2 * MaxStepTicks
         /\ tcnt1 < FALL_TIMEOUT
    /\ ~everHigh => ~enteredFall

C7_Witness ==
    /\ Returned
    /\ result = Unknown
    /\ ~everHigh
    /\ tcnt1 = RISE_TIMEOUT + 1

\* C8: to_um() is ticks * 6805 and to_mm() is that divided by 1000, truncated;
\* 0 ticks is 0 um, 147 ticks is 1000335 um and 1000 mm.
C8_Conversion ==
    /\ cstep >= 1 => /\ U64Small(um1)
                     /\ U64Val(um1) = d1.ticks * 6805
                     /\ d1.ticks = 0 => um1 = U64Zero
                     /\ d1.ticks = 147 => U64Val(um1) = 1000335
    /\ cstep = 2 => /\ U64Small(mm1)
                    /\ U64Val(mm1) = (d1.ticks * 6805) \div 1000
                    /\ d1.ticks = 147 => U64Val(mm1) = 1000

C8_Witness ==
    /\ cstep = 2
    /\ d1.ticks = 147
    /\ U64Val(um1) = 1000335
    /\ U64Val(mm1) = 1000

\* C9: to_mm() * 1000 <= to_um() < (to_mm() + 1) * 1000, and a Distance of no
\* fewer ticks has no smaller to_um() and to_mm().
C9_AccessorsConsistent ==
    cstep = 2 =>
        /\ U64Val(mm1) * 1000 <= U64Val(um1)
        /\ U64Val(um1) < (U64Val(mm1) + 1) * 1000
        /\ d1.ticks <= d2.ticks => /\ U64Val(um1) <= U64Val(um2)
                                   /\ U64Val(mm1) <= U64Val(mm2)
        /\ d2.ticks <= d1.ticks => /\ U64Val(um2) <= U64Val(um1)
                                   /\ U64Val(mm2) <= U64Val(mm1)

C9_Witness ==
    /\ cstep = 2
    /\ d1.ticks = 146
    /\ d2.ticks = 147
    /\ U64Val(mm1) = 993
    /\ U64Val(um1) = 993530
    /\ U64Val(mm2) = 1000

\* C10: of two successive millis() calls with no reset between them the second
\* returns no less than the first, and the counter decreases only while
\* millis_init() or reset_millis() zeroes it.
C10_Monotonic ==
    [][ /\ (pc = "millis_restore" /\ pc' = "idle" /\ lastRead # NoRead)
             => lastRead <= lastRead'
        /\ (~Zeroing /\ U64Small(MILLIS_COUNTER))
             => /\ U64Small(MILLIS_COUNTER')
                /\ U64Val(MILLIS_COUNTER') >= U64Val(MILLIS_COUNTER) ]_vars

\* a second millis() is about to return more than the first did
C10_Witness ==
    /\ pc = "millis_restore"
    /\ lastRead # NoRead
    /\ lastRead < U64Val(acc)

\* the positions of the main context inside millis() and inside get_distance()
MillisPcs == {"millis_free", "millis_load", "millis_restore"}
RangerPcs == TriggerPcs \cup TimedPcs

\* C11: the counter grows only in the handler's store, by MILLIS_INCREMENT;
\* it is set to zero only by the stores of millis_init() and reset_millis();
\* millis() and every step of get_distance() leave it as it is.
C11_MutationDiscipline ==
    [][ /\ U64Val(MILLIS_COUNTER') > U64Val(MILLIS_COUNTER)
             => /\ ipc = "set" /\ ipc' = "reti"
                /\ U64Val(MILLIS_COUNTER') = U64Val(MILLIS_COUNTER) + MILLIS_INCREMENT
        /\ (MILLIS_COUNTER' # MILLIS_COUNTER /\ ipc # "set")
             => /\ Zeroing
                /\ MILLIS_COUNTER' = [MILLIS_COUNTER EXCEPT ![idx] = 0]
        /\ (ipc = "idle" /\ pc \in MillisPcs \cup RangerPcs)
             => MILLIS_COUNTER' = MILLIS_COUNTER ]_vars

\* the handler has raised the counter in the middle of a measurement, after
\* a millis() that returned 1
C11_Witness ==
    /\ pc \in FallPhase
    /\ ipc = "reti"
    /\ lastRead = 1
    /\ U64Val(MILLIS_COUNTER) = 2

InitPcs == {"boot", "init_free", "init_store", "init_restore"}

\* C13: millis_init() runs once, from reset, with interrupts disabled and no
\* handler run; when it has completed the timer interrupt is armed and the
\* counter is zero; interrupts are first enabled by main's enable() after it,
\* and the handler starts only after that.
C13_InitOrdering ==
    [][ /\ pc \in InitPcs \cup {"enable"}
             => ~sreg_i /\ ipc = "idle" /\ runs = 0
        /\ pc = "enable" => ocie0a /\ MILLIS_COUNTER = U64Zero
        /\ pc' \in InitPcs => pc \in InitPcs
        /\ (sreg_i' /\ ~sreg_i /\ ipc = "idle") => pc \notin InitPcs
        /\ ipc' # "idle" => pc' \notin InitPcs \cup {"enable"} ]_vars

\* the first handler run, right after interrupts were enabled
C13_Witness ==
    /\ pc = "new_sensor"
    /\ ipc = "get"
    /\ runs = 0
    /\ MILLIS_COUNTER = U64Zero

PhaseOf(p) ==
    IF p \in {"trig_high", "trig_delay", "trig_low"} THEN 1
    ELSE IF p \in {"reset0"} \cup RisePhase THEN 2
    ELSE IF p \in FallPhase \cup {"read"} THEN 3
    ELSE IF p = "idle" THEN 4
    ELSE 0

\* C15: a call starts in TRIGGERING and goes on to AWAITING_RISE; from there
\* it goes to AWAITING_FALL, only by a poll that reads the echo high, or
\* returns Unknown, only by a counter check that reads more than 188 after a
\* poll that read low; from AWAITING_FALL it returns Infinity, only by a
\* counter check that reads more than 25000, or Measured, only by the counter
\* read; no phase is entered again.
C15_PhaseOrder ==
    [][ pc' # pc =>
        /\ PhaseOf(pc) = 4 /\ PhaseOf(pc') # 4 => pc' = "trig_high"
        /\ PhaseOf(pc') = 1 /\ PhaseOf(pc) # 1 => PhaseOf(pc) = 4
        /\ PhaseOf(pc) = 1 => PhaseOf(pc') \in {1, 2}
        /\ PhaseOf(pc) = 2 => PhaseOf(pc') \in {2, 3, 4}
        /\ PhaseOf(pc) = 3 => PhaseOf(pc') \in {3, 4}
        /\ PhaseOf(pc) = 2 /\ PhaseOf(pc') = 3 => pc = "rise_poll" /\ echo
        /\ PhaseOf(pc) = 2 /\ PhaseOf(pc') = 4
             => pc = "rise_check" /\ tcnt1 > RISE_TIMEOUT /\ result' = Unknown
        /\ PhaseOf(pc) = 3 /\ PhaseOf(pc') = 4
             => \/ pc = "fall_check" /\ tcnt1 > FALL_TIMEOUT /\ result' = Infinity
                \/ pc = "read" /\ result' = Measured(tcnt1)
        /\ result' # result /\ result'.tag # "None"
             => PhaseOf(pc) \in {2, 3} /\ PhaseOf(pc') = 4 ]_vars

\* a call returned Measured(3) after having seen the echo high
C15_Witness ==
    /\ Returned
    /\ enteredFall
    /\ result = Measured(3)

\* C16: the trigger output is high during the delay and low from the first
\* counter reset on, through both waits and at every return; it changes only
\* by set_high() and set_low(); the three steps of the trigger pulse follow
\* one another with no other exit.
C16_TriggerPulse ==
    [][ /\ pc \in {"trig_delay", "trig_low"} => trigger_pin
        /\ pc \in {"reset0", "idle"} \cup TimedPcs => ~trigger_pin
        /\ (pc = "trig_high" /\ pc' # pc) => pc' = "trig_delay" /\ trigger_pin'
        /\ (pc = "trig_delay" /\ pc' # pc) => pc' = "trig_low" /\ trigger_pin'
        /\ (pc = "trig_low" /\ pc' # pc) => pc' = "reset0" /\ ~trigger_pin'
        /\ pc' = "reset0" => pc \in {"trig_low", "reset0"}
        /\ trigger_pin' # trigger_pin => pc \in {"trig_high", "trig_low"} ]_vars

\* a call returned Unknown, the echo having risen after the last poll
C16_Witness ==
    /\ Returned
    /\ result = Unknown
    /\ echo
    /\ ~trigger_pin

\* C17: a Measured result is at most 25000 ticks.
C17_MeasuredInWindow ==
    (Returned /\ result.tag = "Measured") => result.ticks <= FALL_TIMEOUT

\* C18: a Measured result is the width, within the polling lag, of a pulse
\* that rose during the rising-edge wait of this call and fell after the call
\* saw it high.
C18_FreshSample ==
    (Returned /\ result.tag = "Measured")
        => /\ pulse = "fell"
           /\ result.ticks >= pulseTicks - RiseLag
           /\ result.ticks <= pulseTicks + FallLag

\* C19: both waits start with the counter at zero, both thresholds are below
\* 65535, and from the first reset of a call to its return the counter stays
\* below the wrap value and decreases only by the program's resets, so no
\* value that is compared or returned has wrapped.
C19_NoWrap ==
    [][ /\ RISE_TIMEOUT < U16_MAX /\ FALL_TIMEOUT < U16_MAX
        /\ pc \in RisePhase => tcnt1 <= RISE_TIMEOUT + 2 * MaxStepTicks
        /\ pc \in TimedPcs => tcnt1 <= FALL_TIMEOUT + 3 * MaxStepTicks
        /\ FALL_TIMEOUT + 3 * MaxStepTicks < U16_MAX
        /\ (pc' # pc /\ pc' \in {"rise_poll", "fall_poll"}
               /\ pc \in {"reset0", "reset2"}) => tcnt1' = 0
        /\ (pc \in TimedPcs /\ tcnt1' # tcnt1)
             => \/ tcnt1' = tcnt1 + 1
                \/ pc \in {"reset1", "reset2"} /\ pc' # pc /\ tcnt1' = 0
        /\ (result' # result /\ result'.tag = "Measured")
             => result'.ticks = tcnt1 ]_vars

\* the largest counter value that is compared against a threshold
C19_Witness ==
    /\ pc = "fall_check"
    /\ tcnt1 = FALL_TIMEOUT + 2 * MaxStepTicks

\* the largest product of to_um()
MaxUm == U16_MAX * 6805

\* C20: for every tick count the product of to_um() carries nothing out of
\* the u64 and is ticks * 6805, at most 445965675 and reached at 65535, and
\* to_mm() is its quotient by 1000.
C20_NoOverflow ==
    /\ MaxUm = 445965675
    /\ cstep >= 1 => /\ U64MulCarry(U64Of(d1.ticks), UM_PER_TICK) = 0
                     /\ \A i \in 5..U64Bytes : um1[i] = 0
                     /\ um1[4] < 128
                     /\ U64Val(um1) = d1.ticks * 6805
                     /\ U64Val(um1) <= MaxUm
                     /\ d1.ticks = U16_MAX => U64Val(um1) = MaxUm
    /\ cstep = 2 => /\ \A i \in 5..U64Bytes : mm1[i] = 0
                    /\ U64Val(mm1) * 1000 + ((d1.ticks * 6805) % 1000)
                         = d1.ticks * 6805

C20_Witness ==
    /\ cstep = 2
    /\ d1.ticks = U16_MAX
    /\ U64Val(um1) = 445965675
    /\ U64Val(mm1) = 445965

\* C21: for every u8 angle given to set_angle, the phase value lies in
\* 0..1000, the subtraction 1000 - phase.value of write_phase does not
\* underflow (no panic, no wrapped delay), and every pulse that set_phase has
\* sent was high for 1000 + value microseconds in a period of 20 ms.
C21_PhaseRange ==
    /\ current_phase \in 0..1000
    /\ sv_pc # "panic"
    /\ (sv_pc = "loop" /\ sv_i > 0) =>
           /\ high_us = 1000 + current_phase
           /\ low_us.hi = 0
           /\ high_us + (1000 * low_ms) + low_us.lo = 20000

\* C22: every step of set_direction leaves both enable pins unchanged, every
\* step of set_enabled leaves the four direction pins unchanged, and whenever
\* no set_direction is in progress and one has completed, the two direction
\* pins of each pair are complementary and select the directions that the
\* latest set_direction asked for: the same for Forward and Backward,
\* opposite ones for Left and Right.
C22_MotorFrame ==
    /\ [][((m_pc \in DirectionPcs \/ m_pc' \in DirectionPcs) =>
               UNCHANGED <<pin_enable_a, pin_enable_b>>)
          /\ ((m_pc \in EnabledPcs \/ m_pc' \in EnabledPcs) =>
               UNCHANGED <<pin_a1, pin_a2, pin_b1, pin_b2>>)]_vars
    /\ []((m_pc \notin DirectionPcs /\ last_direction # "None") =>
            /\ pin_a1 # pin_a2
            /\ pin_b1 # pin_b2
            /\ last_direction \in {"Left", "Right"} =>
                  PairADirection # PairBDirection
            /\ last_direction = "Left" => PairADirection = "Backward"
            /\ last_direction = "Right" => PairADirection = "Forward"
            /\ last_direction \in {"Forward", "Backward"} =>
                  /\ PairADirection = last_direction
                  /\ PairBDirection = last_direction)

\* set_direction(Left) has completed after another direction, and a later
\* set_enabled(true, false) has completed
C22_Witness ==
    /\ m_pc = "idle"
    /\ last_direction = "Left"
    /\ pin_a2 /\ pin_b2 /\ ~pin_a1 /\ ~pin_b1
    /\ pin_enable_a /\ ~pin_enable_b
    /\ m_en = <<TRUE, FALSE>>

\* C23: both classifications of every reading are one of the seven bias
\* directions; the light-mode bias of a reading is the dark-mode bias of the
\* inverted reading, and conversely; in dark mode a line under the left
\* sensor only is VeryLeft, under centre and left SlightlyLeft, under the
\* centre only Center, under all three OnPerpendicularLine, under none or
\* under left and right only NotOnLine; and to_line_tracker_direction sends
\* VeryLeft and SlightlyLeft to Left, VeryRight and SlightlyRight to Right,
\* every other bias to Center.
C23_BiasClassification ==
    LET l == position.left = "Dark"
        m == position.mid = "Dark"
        r == position.right = "Dark"
        direction(bias) ==
            IF bias = "VeryLeft" \/ bias = "SlightlyLeft" THEN "Left"
            ELSE IF bias = "VeryRight" \/ bias = "SlightlyRight" THEN "Right"
            ELSE "Center"
    IN  /\ lstep >= 2 =>
             /\ bias_dark \in LineBiasDirection
             /\ bias_light \in LineBiasDirection
             /\ bias_light = get_bias_direction_dark(Inverted(position))
             /\ bias_dark = get_bias_direction_light(Inverted(position))
             /\ (l /\ ~m /\ ~r) => bias_dark = "VeryLeft"
             /\ (l /\ m /\ ~r) => bias_dark = "SlightlyLeft"
             /\ (~l /\ m /\ ~r) => bias_dark = "Center"
             /\ (l /\ m /\ r) => bias_dark = "OnPerpendicularLine"
             /\ (~l /\ ~m /\ ~r) => bias_dark = "NotOnLine"
             /\ (l /\ ~m /\ r) => bias_dark = "NotOnLine"
        /\ lstep = 3 =>
             /\ tracker_dark = direction(bias_dark)
             /\ tracker_light = direction(bias_light)

\* the line is under the centre and left sensors: SlightlyLeft in dark mode,
\* VeryRight in light mode, converted to Left and Right
C23_Witness ==
    /\ lstep = 3
    /\ position = LinePosition("Dark", "Dark", "Light")
    /\ bias_dark = "SlightlyLeft"
    /\ bias_light = "VeryRight"
    /\ tracker_dark = "Left"
    /\ tracker_light = "Right"

====
